---- MODULE Spec2Model ----
(***************************************************************************)
(* CodeActSWEAgent (agenthub/codeact_swe_agent/codeact_swe_agent.py).      *)
(*                                                                         *)
(* A Python str is modelled as a sequence of tokens.  A token is a piece   *)
(* of text that the program only ever handles whole: a tag of the tagged   *)
(* mini-language, a literal of an f-string, one white-space character, one *)
(* ordinary character, the word exit.  The tags begin with '<' and end     *)
(* with '>' and no other token holds either character, so a tag occurs in  *)
(* the text exactly where its token occurs in the sequence, and `in`,      *)
(* re.search, str.replace and str.strip on the text are the same           *)
(* operations on the sequence.  len() of the text is the sum of the        *)
(* tokens' lengths (StrLen).                                               *)
(***************************************************************************)
EXTENDS Integers, Sequences, FiniteSets, TLC

VARIABLES
    history,            \* state.history: the events, oldest first
    iteration,          \* state.iteration
    max_iterations,     \* state.max_iterations
    num_of_chars,       \* state.num_of_chars
    system_message,     \* CodeActSWEAgent.system_message (class attribute)
    in_context_example, \* CodeActSWEAgent.in_context_example (class attribute)
    llm_calls,          \* number of self.llm.completion calls made so far
    step_calls,         \* number of step calls made so far
    messages,           \* the message list the last step assembled
    response,           \* response.choices[0].message.content of the last completion
    action,             \* the Action the last step returned
    observation,        \* truncate_observation: argument observation
    max_chars,          \* truncate_observation: argument max_chars
    truncated           \* truncate_observation: returned str

vars == <<history, iteration, max_iterations, num_of_chars, system_message,
          in_context_example, llm_calls, step_calls, messages, response, action,
          observation, max_chars, truncated>>

-----------------------------------------------------------------------------
(* Bounds *)

MaxReplyLen == 4
MaxObsLen == 6
MaxMaxChars == 5
MaxHistory == 2
MaxSteps == 2

-----------------------------------------------------------------------------
(* Python str and re primitives on token sequences *)

Whitespace == {" ", "\n"}

SeqsUpTo(S, n) == UNION {[1..k -> S] : k \in 0..n}

RECURSIVE StrLen(_)
StrLen(s) == IF s = <<>> THEN 0 ELSE Len(Head(s)) + StrLen(Tail(s))

Contains(s, tok) == \E i \in 1..Len(s) : s[i] = tok

RECURSIVE lstrip(_)
lstrip(s) == IF s # <<>> /\ Head(s) \in Whitespace THEN lstrip(Tail(s)) ELSE s

RECURSIVE rstrip(_)
rstrip(s) ==
    IF s # <<>> /\ s[Len(s)] \in Whitespace THEN rstrip(SubSeq(s, 1, Len(s) - 1)) ELSE s

strip(s) == rstrip(lstrip(s))

StartsWith(s, sub) == Len(sub) <= Len(s) /\ SubSeq(s, 1, Len(sub)) = sub

\* str.replace(old, ''): every non-overlapping occurrence of old, left to right
RECURSIVE replace(_, _)
replace(s, old) ==
    IF s = <<>> \/ old = <<>> THEN s
    ELSE IF StartsWith(s, old) THEN replace(SubSeq(s, Len(old) + 1, Len(s)), old)
    ELSE <<Head(s)>> \o replace(Tail(s), old)

Min(S) == CHOOSE x \in S : \A y \in S : x <= y
Max(S) == CHOOSE x \in S : \A y \in S : x >= y

NoMatch == [start |-> 0, end |-> 0]

\* re.search(open + '.*' + close, s, re.DOTALL): leftmost start, longest span
SearchGreedy(open, close, s) ==
    LET starts == {i \in 1..Len(s) : s[i] = open /\ \E j \in (i+1)..Len(s) : s[j] = close}
    IN  IF starts = {} THEN NoMatch
        ELSE LET i == Min(starts)
             IN  [start |-> i, end |-> Max({j \in (i+1)..Len(s) : s[j] = close})]

\* re.search(open + '(.*?)' + close, s, re.DOTALL): leftmost start, shortest span
SearchLazy(open, close, s) ==
    LET starts == {i \in 1..Len(s) : s[i] = open /\ \E j \in (i+1)..Len(s) : s[j] = close}
    IN  IF starts = {} THEN NoMatch
        ELSE LET i == Min(starts)
             IN  [start |-> i, end |-> Min({j \in (i+1)..Len(s) : s[j] = close})]

group0(s, m) == SubSeq(s, m.start, m.end)
group1(s, m) == SubSeq(s, m.start + 1, m.end - 1)

-----------------------------------------------------------------------------
(* parse_response *)

ClosingTag(lang) == CASE lang = "bash"    -> "</execute_bash>"
                      [] lang = "ipython" -> "</execute_ipython>"
                      [] lang = "browse"  -> "</execute_browse>"

OpeningTag(lang) == CASE lang = "bash"    -> "<execute_bash>"
                      [] lang = "ipython" -> "<execute_ipython>"
                      [] lang = "browse"  -> "<execute_browse>"

Repair_opening(a, lang) ==
    IF Contains(a, OpeningTag(lang)) /\ ~Contains(a, ClosingTag(lang))
    THEN a \o <<OpeningTag(lang)>> ELSE a

Repair_none(a, lang) == a

\* one round of the loop: the closing tag is appended when only the opening one is there
Repair(a, lang) ==
    IF Contains(a, OpeningTag(lang)) /\ ~Contains(a, ClosingTag(lang))
    THEN a \o <<ClosingTag(lang)>> ELSE a

parse_response(content) == Repair(Repair(Repair(content, "bash"), "ipython"), "browse")

-----------------------------------------------------------------------------
(* The actions step returns *)

NoAction == [type |-> "None", thought |-> <<>>, payload |-> <<>>, wait_for_response |-> FALSE]

AgentFinishAction(thought) ==
    [type |-> "AgentFinishAction", thought |-> thought, payload |-> <<>>,
     wait_for_response |-> FALSE]

CmdRunAction(command, thought) ==
    [type |-> "CmdRunAction", thought |-> thought, payload |-> command,
     wait_for_response |-> FALSE]

IPythonRunCellAction(code, thought) ==
    [type |-> "IPythonRunCellAction", thought |-> thought, payload |-> code,
     wait_for_response |-> FALSE]

BrowseInteractiveAction(browser_actions, thought) ==
    [type |-> "BrowseInteractiveAction", thought |-> thought, payload |-> browser_actions,
     wait_for_response |-> FALSE]

MessageAction(content, wait) ==
    [type |-> "MessageAction", thought |-> <<>>, payload |-> content,
     wait_for_response |-> wait]

-----------------------------------------------------------------------------
(* step, lines 192-229: the reply's classification *)

SearchFinish_lazy(s) == SearchLazy("<finish>", "</finish>", s)

SearchFinish(s) == SearchGreedy("<finish>", "</finish>", s)

SearchBash(s) == SearchLazy("<execute_bash>", "</execute_bash>", s)

SearchIPython(s) == SearchLazy("<execute_ipython>", "</execute_ipython>", s)

SearchBrowse(s) == SearchGreedy("<execute_browse>", "</execute_browse>", s)

IsExitCommand_contains(command_group) == Contains(command_group, "exit")

IsExitCommand(command_group) == strip(command_group) = <<"exit">>

Thought(action_str, m) == strip(replace(action_str, group0(action_str, m)))

Classify_bash_first(action_str) ==
    IF SearchBash(action_str) # NoMatch THEN
        LET m == SearchBash(action_str)
            command_group == strip(group1(action_str, m))
        IN  IF IsExitCommand(command_group) THEN AgentFinishAction(<<>>)
            ELSE CmdRunAction(command_group, Thought(action_str, m))
    ELSE IF SearchFinish(action_str) # NoMatch THEN
        AgentFinishAction(Thought(action_str, SearchFinish(action_str)))
    ELSE IF SearchIPython(action_str) # NoMatch THEN
        LET m == SearchIPython(action_str)
        IN  IPythonRunCellAction(strip(group1(action_str, m)), Thought(action_str, m))
    ELSE IF SearchBrowse(action_str) # NoMatch THEN
        LET m == SearchBrowse(action_str)
        IN  BrowseInteractiveAction(strip(group1(action_str, m)), Thought(action_str, m))
    ELSE MessageAction(action_str, TRUE)

Classify(action_str) ==
    IF SearchFinish(action_str) # NoMatch THEN
        AgentFinishAction(Thought(action_str, SearchFinish(action_str)))
    ELSE IF SearchBash(action_str) # NoMatch THEN
        LET m == SearchBash(action_str)
            command_group == strip(group1(action_str, m))
        IN  IF IsExitCommand(command_group) THEN AgentFinishAction(<<>>)
            ELSE CmdRunAction(command_group, Thought(action_str, m))
    ELSE IF SearchIPython(action_str) # NoMatch THEN
        LET m == SearchIPython(action_str)
        IN  IPythonRunCellAction(strip(group1(action_str, m)), Thought(action_str, m))
    ELSE IF SearchBrowse(action_str) # NoMatch THEN
        LET m == SearchBrowse(action_str)
        IN  BrowseInteractiveAction(strip(group1(action_str, m)), Thought(action_str, m))
    ELSE MessageAction(action_str, TRUE)

-----------------------------------------------------------------------------
(* truncate_observation *)

DefaultMaxChars == 10000

TruncationMarker == <<"\n", "[... Observation truncated due to length ...]", "\n">>

\* observation[:half]
SliceTo(s, half) == SubSeq(s, 1, half)

\* observation[-half:]; -0 is 0 in Python, so observation[-0:] is all of observation
SliceLast(s, half) == IF half = 0 THEN s ELSE SubSeq(s, Len(s) - half + 1, Len(s))

\* The slices count tokens, so the second branch is exact for texts of
\* one-character tokens; the texts of Spec never reach DefaultMaxChars.
truncate_observation(obs, maxc) ==
    IF StrLen(obs) <= maxc THEN obs
    ELSE LET half == maxc \div 2
         IN  SliceTo(obs, half) \o TruncationMarker \o SliceLast(obs, half)

-----------------------------------------------------------------------------
(* Events and the messages made of them *)

DigitToken(d) == <<"0", "1", "2", "3", "4", "5", "6", "7", "8", "9">>[d + 1]

\* the decimal text an f-string gives an int
RECURSIVE IntToStr(_)
IntToStr(n) ==
    IF n < 0 THEN <<"-">> \o IntToStr(-n)
    ELSE IF n < 10 THEN <<DigitToken(n)>>
    ELSE IntToStr(n \div 10) \o <<DigitToken(n % 10)>>

Event(kind, source, thought, content) ==
    [kind |-> kind, source |-> source, thought |-> thought, content |-> content,
     command_id |-> 0, exit_code |-> 0]

CmdOutput(content, command_id, exit_code) ==
    [kind |-> "CmdOutputObservation", source |-> "agent", thought |-> <<>>,
     content |-> content, command_id |-> command_id, exit_code |-> exit_code]

ActionKinds == {"CmdRunAction", "IPythonRunCellAction", "BrowseInteractiveAction",
                "MessageAction", "AgentFinishAction"}

NoMessage == [role |-> "none", content |-> <<>>]

action_to_str(a) ==
    CASE a.kind = "CmdRunAction" ->
            a.thought \o <<"\n", "<execute_bash>", "\n">> \o a.content
                      \o <<"\n", "</execute_bash>">>
      [] a.kind = "IPythonRunCellAction" ->
            a.thought \o <<"\n", "<execute_ipython>", "\n">> \o a.content
                      \o <<"\n", "</execute_ipython>">>
      [] a.kind = "BrowseInteractiveAction" ->
            a.thought \o <<"\n", "<execute_browse>", "\n">> \o a.content
                      \o <<"\n", "</execute_browse>">>
      [] a.kind = "MessageAction" -> a.content
      [] OTHER -> <<>>

get_action_message(a) ==
    IF a.kind \in {"BrowseInteractiveAction", "CmdRunAction", "IPythonRunCellAction",
                   "MessageAction"}
    THEN [role |-> IF a.source = "user" THEN "user" ELSE "assistant",
          content |-> action_to_str(a)]
    ELSE NoMessage

ImageData == "![image](data:image/png;base64,"

ImagePlaceholder == <<ImageData, " ...) already displayed to user">>

\* content.split('\n')
RECURSIVE split(_)
split(s) ==
    IF ~Contains(s, "\n") THEN <<s>>
    ELSE LET i == Min({j \in 1..Len(s) : s[j] = "\n"})
         IN  <<SubSeq(s, 1, i - 1)>> \o split(SubSeq(s, i + 1, Len(s)))

\* '\n'.join(splitted)
RECURSIVE join(_)
join(lines) ==
    IF Len(lines) = 1 THEN lines[1] ELSE lines[1] \o <<"\n">> \o join(Tail(lines))

ReplaceImages(lines) ==
    [i \in 1..Len(lines) |->
        IF Contains(lines[i], ImageData) THEN ImagePlaceholder ELSE lines[i]]

get_observation_message(obs) ==
    CASE obs.kind = "CmdOutputObservation" ->
            [role |-> "user",
             content |-> <<"OBSERVATION:", "\n">>
                         \o truncate_observation(obs.content, DefaultMaxChars)
                         \o <<"\n", "[Command ">> \o IntToStr(obs.command_id)
                         \o <<" finished with exit code ">> \o IntToStr(obs.exit_code)
                         \o <<"]]">>]
      [] obs.kind = "IPythonRunCellObservation" ->
            [role |-> "user",
             content |-> truncate_observation(
                            join(ReplaceImages(split(<<"OBSERVATION:", "\n">> \o obs.content))),
                            DefaultMaxChars)]
      [] obs.kind = "BrowserOutputObservation" ->
            [role |-> "user",
             content |-> <<"OBSERVATION:", "\n">>
                         \o truncate_observation(obs.content, DefaultMaxChars)]
      [] OTHER -> NoMessage

\* lines 244-248
EventMessage(event) ==
    IF event.kind \in ActionKinds THEN get_action_message(event)
    ELSE get_observation_message(event)

-----------------------------------------------------------------------------
(* The prompt texts.  MINIMAL_SYSTEM_PREFIX, COMMAND_DOCS, SYSTEM_SUFFIX and    *)
(* SWE_EXAMPLE come from prompt.py; each is one opaque token here, and StrLen   *)
(* counts it at the length of its name.                                         *)

get_system_message ==
    <<"MINIMAL_SYSTEM_PREFIX", "\n", "\n", "COMMAND_DOCS", "\n", "\n", "SYSTEM_SUFFIX">>

get_in_context_example == <<"SWE_EXAMPLE">>

InContextExampleText ==
    <<"Here is an example of how you can interact with the environment for task solving:",
      "\n">> \o get_in_context_example \o <<"\n", "\n", "NOW, LET'S START!">>

-----------------------------------------------------------------------------
(* _get_messages *)

ExitText == <<"/", "exit">>

Reminder(turns) ==
    <<"\n", "\n", "ENVIRONMENT REMINDER: You have ">> \o IntToStr(turns)
        \o <<" turns left to complete the task.">>

\* lines 243-250: the messages of the events that have one, in order
RECURSIVE HistoryMessages(_)
HistoryMessages(h) ==
    IF h = <<>> THEN <<>>
    ELSE LET m == EventMessage(Head(h))
         IN  (IF m = NoMessage THEN <<>> ELSE <<m>>) \o HistoryMessages(Tail(h))

LatestUserIndex_first(msgs) ==
    IF \E i \in 1..Len(msgs) : msgs[i].role = "user"
    THEN Min({i \in 1..Len(msgs) : msgs[i].role = "user"}) ELSE 0

\* next((m for m in reversed(messages) if m['role'] == 'user'), None); 0 is None
LatestUserIndex(msgs) ==
    IF \E i \in 1..Len(msgs) : msgs[i].role = "user"
    THEN Max({i \in 1..Len(msgs) : msgs[i].role = "user"}) ELSE 0

TurnsLeft(maxit, it) == maxit - it

get_messages(h, it, maxit, sysmsg, example) ==
    LET msgs == <<[role |-> "system", content |-> sysmsg],
                  [role |-> "user", content |-> example]>> \o HistoryMessages(h)
        k == LatestUserIndex(msgs)
    IN  IF k = 0 THEN msgs
        ELSE IF strip(msgs[k].content) = ExitText THEN msgs
        ELSE [msgs EXCEPT ![k].content = @ \o Reminder(TurnsLeft(maxit, it))]

\* The event whose message is the k-th of the list (0: the k-th is not an event's)
MessageEvent(h, k) ==
    LET made == {e \in 1..Len(h) :
                    /\ EventMessage(h[e]) # NoMessage
                    /\ Len(HistoryMessages(SubSeq(h, 1, e))) = k - 2}
    IN  IF made = {} THEN 0 ELSE Min(made)

StoredText_aliased(stored, content) == content

\* Line 258 rebinds the 'content' key of a dict built for this call (lines 59-62
\* and 236-240); a str is immutable, so the attribute whose str the dict was
\* given keeps it.
StoredText(stored, content) == stored

\* history and in_context_example once _get_messages has returned msgs
HistoryAfter(h, msgs) ==
    LET k == LatestUserIndex(msgs)
        e == MessageEvent(h, k)
    IN  IF e # 0 /\ h[e].kind = "MessageAction"
        THEN [h EXCEPT ![e].content = StoredText(@, msgs[k].content)]
        ELSE h

ExampleAfter(example, msgs) ==
    IF LatestUserIndex(msgs) = 2 THEN StoredText(example, msgs[2].content) ELSE example

-----------------------------------------------------------------------------
(* step *)

\* lines 171-174
ExitRequested_unstripped(msgs) ==
    LET k == LatestUserIndex(msgs) IN k # 0 /\ msgs[k].content = ExitText

ExitRequested(msgs) ==
    LET k == LatestUserIndex(msgs) IN k # 0 /\ strip(msgs[k].content) = ExitText

RECURSIVE ContentChars(_)
ContentChars(msgs) ==
    IF msgs = <<>> THEN 0 ELSE StrLen(Head(msgs).content) + ContentChars(Tail(msgs))

CharsUsed_reply_only(msgs, action_str) == StrLen(action_str)

\* lines 188-190: what one completion adds to state.num_of_chars
CharsUsed(msgs, action_str) == ContentChars(msgs) + StrLen(action_str)

\* The replies the model gives in Spec
StepReplies ==
    { <<"x">>,
      <<"x", "<execute_bash>", "\n", "x">>,
      <<"<execute_ipython>", "x", "<execute_browse>">> }

\* The events the caller appends to state.history in Spec
EventPool ==
    { Event("MessageAction", "user", <<>>, ExitText),
      Event("MessageAction", "user", <<>>, <<" ">> \o ExitText \o <<"\n">>),
      Event("MessageAction", "user", <<>>, <<"x", " ", "x">>),
      Event("CmdRunAction", "agent", <<"x">>, <<"x">>),
      CmdOutput(ExitText, 1, 0),
      Event("IPythonRunCellObservation", "agent", <<>>, <<"x", "\n", ImageData, "x", ")">>),
      Event("AgentFinishAction", "agent", <<"x">>, <<>>) }

NotTruncated == <<"<none>">>

Init ==
    /\ history = <<>>
    /\ iteration = 0
    /\ max_iterations = 10
    /\ num_of_chars = 0
    /\ system_message = get_system_message
    /\ in_context_example = InContextExampleText
    /\ llm_calls = 0
    /\ step_calls = 0
    /\ messages = <<>>
    /\ response = <<>>
    /\ action = NoAction
    /\ observation = <<>>
    /\ max_chars = DefaultMaxChars
    /\ truncated = NotTruncated

\* The caller (the controller) records an event; the locals of the last step are gone
AppendEvent ==
    /\ Len(history) < MaxHistory
    /\ \E e \in EventPool : history' = Append(history, e)
    /\ messages' = <<>>
    /\ response' = <<>>
    /\ action' = NoAction
    /\ UNCHANGED <<iteration, max_iterations, num_of_chars, system_message,
                   in_context_example, llm_calls, step_calls, observation, max_chars,
                   truncated>>

\* The caller counts a turn
NextIteration ==
    /\ iteration < step_calls
    /\ iteration < max_iterations
    /\ iteration' = iteration + 1
    /\ messages' = <<>>
    /\ response' = <<>>
    /\ action' = NoAction
    /\ UNCHANGED <<history, max_iterations, num_of_chars, system_message,
                   in_context_example, llm_calls, step_calls, observation, max_chars,
                   truncated>>

\* CodeActSWEAgent.step(state)
Step ==
    /\ step_calls < MaxSteps
    /\ step_calls' = step_calls + 1
    /\ LET msgs == get_messages(history, iteration, max_iterations, system_message,
                                in_context_example)
       IN  /\ messages' = msgs
           /\ history' = HistoryAfter(history, msgs)
           /\ in_context_example' = ExampleAfter(in_context_example, msgs)
           /\ IF ExitRequested(msgs)
              THEN /\ action' = AgentFinishAction(<<>>)
                   /\ UNCHANGED <<llm_calls, response, num_of_chars>>
              ELSE \E reply \in StepReplies :
                   LET action_str == parse_response(reply)
                   IN  /\ llm_calls' = llm_calls + 1
                       /\ response' = reply
                       /\ num_of_chars' = num_of_chars + CharsUsed(msgs, action_str)
                       /\ action' = Classify(action_str)
    /\ UNCHANGED <<iteration, max_iterations, system_message, observation, max_chars,
                   truncated>>

Next == AppendEvent \/ NextIteration \/ Step

Spec == Init /\ [][Next]_vars

-----------------------------------------------------------------------------
(* The classification of every reply of at most MaxReplyLen tokens *)

ReplyAlphabet ==
    {"<finish>", "</finish>", "<execute_bash>", "</execute_bash>", "<execute_ipython>",
     "</execute_ipython>", "<execute_browse>", "</execute_browse>", " ", "x", "exit"}

ParseInit ==
    /\ response \in SeqsUpTo(ReplyAlphabet, MaxReplyLen)
    /\ action = NoAction
    /\ history = <<>>
    /\ iteration = 0
    /\ max_iterations = 10
    /\ num_of_chars = 0
    /\ system_message = get_system_message
    /\ in_context_example = InContextExampleText
    /\ llm_calls = 0
    /\ step_calls = 0
    /\ messages = <<>>
    /\ observation = <<>>
    /\ max_chars = DefaultMaxChars
    /\ truncated = NotTruncated

\* lines 187-229 on the reply
ParseReply ==
    /\ action = NoAction
    /\ action' = Classify(parse_response(response))
    /\ UNCHANGED <<history, iteration, max_iterations, num_of_chars, system_message,
                   in_context_example, llm_calls, step_calls, messages, response,
                   observation, max_chars, truncated>>

ParseNext == ParseReply

SpecParse == ParseInit /\ [][ParseNext]_vars

-----------------------------------------------------------------------------
(* truncate_observation on every text of at most MaxObsLen characters *)

ObsAlphabet == {"a", "b"}

TruncInit ==
    /\ observation \in SeqsUpTo(ObsAlphabet, MaxObsLen)
    /\ max_chars \in 0..MaxMaxChars
    /\ truncated = NotTruncated
    /\ history = <<>>
    /\ iteration = 0
    /\ max_iterations = 10
    /\ num_of_chars = 0
    /\ system_message = get_system_message
    /\ in_context_example = InContextExampleText
    /\ llm_calls = 0
    /\ step_calls = 0
    /\ messages = <<>>
    /\ response = <<>>
    /\ action = NoAction

Truncate ==
    /\ truncated = NotTruncated
    /\ truncated' = truncate_observation(observation, max_chars)
    /\ UNCHANGED <<history, iteration, max_iterations, num_of_chars, system_message,
                   in_context_example, llm_calls, step_calls, messages, response, action,
                   observation, max_chars>>

TruncNext == Truncate

SpecTrunc == TruncInit /\ [][TruncNext]_vars

-----------------------------------------------------------------------------
(* What the claims speak of, said without the operators above *)

HasPair(s, open, close) ==
    \E i \in 1..Len(s) : \E j \in (i+1)..Len(s) : s[i] = open /\ s[j] = close

FirstIndex(s, tok) == Min({i \in 1..Len(s) : s[i] = tok})

LastIndex(s, tok) == Max({i \in 1..Len(s) : s[i] = tok})

FirstAfter(s, i, tok) == Min({j \in (i+1)..Len(s) : s[j] = tok})

TextAfter(s, i) == SubSeq(s, i + 1, Len(s))

\* the first opening tag up to the first closing tag after it
ShortestSpan(s, open, close) ==
    [start |-> FirstIndex(s, open), end |-> FirstAfter(s, FirstIndex(s, open), close)]

\* the first opening tag up to the last closing tag
LongestSpan(s, open, close) ==
    [start |-> FirstIndex(s, open), end |-> LastIndex(s, close)]

SpanText(s, span) == SubSeq(s, span.start, span.end)

SpanInner(s, span) == SubSeq(s, span.start + 1, span.end - 1)

Langs == {"bash", "ipython", "browse"}

Unterminated(s, lang) == Contains(s, OpeningTag(lang)) /\ ~Contains(s, ClosingTag(lang))

\* the characters of the closing tags the repair adds to s
AppendedChars(s) ==
    (IF Unterminated(s, "bash") THEN Len(ClosingTag("bash")) ELSE 0)
    + (IF Unterminated(s, "ipython") THEN Len(ClosingTag("ipython")) ELSE 0)
    + (IF Unterminated(s, "browse") THEN Len(ClosingTag("browse")) ELSE 0)

IsLastUser(msgs, k) ==
    /\ k \in 1..Len(msgs)
    /\ msgs[k].role = "user"
    /\ \A i \in (k+1)..Len(msgs) : msgs[i].role # "user"

ExitLast(msgs) == \E k \in 1..Len(msgs) : IsLastUser(msgs, k) /\ strip(msgs[k].content) = ExitText

-----------------------------------------------------------------------------
(* C1 *)

\* C1: a step whose assembled list has a last user message that trims to /exit
\* returns a Finish action and makes no call of the model.
C1_ExitShortCircuit ==
    [][(step_calls' # step_calls /\ ExitLast(messages'))
        => (action'.type = "AgentFinishAction" /\ llm_calls' = llm_calls)]_vars

C1_Witness ==
    /\ step_calls = 2
    /\ llm_calls = 0
    /\ action.type = "AgentFinishAction"
    /\ ExitLast(messages)
    /\ messages[Len(messages)].role = "assistant"
    /\ \E k \in 1..Len(messages) : IsLastUser(messages, k) /\ messages[k].content # ExitText

-----------------------------------------------------------------------------
(* C2 *)

\* C2: a reply that holds <finish> and, later, </finish> is classified Finish,
\* whatever command, code or browse tags it also holds.
C2_FinishFirst ==
    (action # NoAction /\ HasPair(response, "<finish>", "</finish>"))
        => action.type = "AgentFinishAction"

C2_Witness ==
    /\ action.type = "AgentFinishAction"
    /\ HasPair(response, "<finish>", "</finish>")
    /\ Contains(response, "<execute_bash>")
    /\ FirstIndex(response, "<execute_bash>") < FirstIndex(response, "<finish>")
    /\ ~Contains(response, "</execute_bash>")

-----------------------------------------------------------------------------
(* C3 *)

C3_Case ==
    /\ Contains(response, "<execute_bash>")
    /\ ~Contains(response, "</execute_bash>")
    /\ ~HasPair(response, "<finish>", "</finish>")
    /\ strip(TextAfter(response, FirstIndex(response, "<execute_bash>"))) # <<"exit">>

\* C3: a reply with <execute_bash>, no </execute_bash> and no finish pair, whose
\* text after the first <execute_bash> does not trim to exit, is classified
\* RunCommand, the command being that text, trimmed.
C3_UnterminatedCommand ==
    (action # NoAction /\ C3_Case)
        => /\ action.type = "CmdRunAction"
           /\ action.payload =
                strip(TextAfter(response, FirstIndex(response, "<execute_bash>")))

C3_Witness ==
    /\ action.type = "CmdRunAction"
    /\ C3_Case
    /\ Contains(response, "<execute_ipython>")
    /\ Contains(action.payload, "x")

-----------------------------------------------------------------------------
(* C4 *)

C4_Case ==
    /\ ~HasPair(response, "<finish>", "</finish>")
    /\ HasPair(response, "<execute_bash>", "</execute_bash>")

C4_Inner ==
    strip(SpanInner(response, ShortestSpan(response, "<execute_bash>", "</execute_bash>")))

\* C4: a reply with a command pair and no finish pair is classified Finish when
\* the trimmed inner text of its first command pair is exactly exit, and
\* RunCommand with that trimmed inner text as command otherwise.
C4_ExitAlias ==
    (action # NoAction /\ C4_Case)
        => IF C4_Inner = <<"exit">>
           THEN action.type = "AgentFinishAction"
           ELSE action.type = "CmdRunAction" /\ action.payload = C4_Inner

C4_Witness ==
    /\ action.type = "AgentFinishAction"
    /\ C4_Case
    /\ Contains(response, " ")
    /\ Len(response) = MaxReplyLen

-----------------------------------------------------------------------------
(* C5 *)

\* C5: a PlainMessage carries the reply as the model gave it, and no reply the
\* repair adds a closing tag to is classified PlainMessage.
C5_PlainVerbatim ==
    action.type = "MessageAction"
        => /\ action.payload = response
           /\ \A lang \in Langs : ~Unterminated(response, lang)

C5_Witness ==
    /\ action.type = "MessageAction"
    /\ action.payload = response
    /\ Contains(response, "<execute_bash>")
    /\ Contains(response, "</execute_bash>")

-----------------------------------------------------------------------------
(* C6 *)

\* C6: truncate returns a text of at most max_chars characters unchanged; of a
\* longer one it returns max_chars + len(marker) characters, which begin with
\* the first max_chars/2 and end with the last max_chars/2 characters of the text.
C6_Truncate ==
    truncated # NotTruncated
        => IF StrLen(observation) <= max_chars THEN truncated = observation
           ELSE LET half == max_chars \div 2
                IN  /\ StrLen(truncated) = max_chars + StrLen(TruncationMarker)
                    /\ SubSeq(truncated, 1, half) = SubSeq(observation, 1, half)
                    /\ SubSeq(truncated, Len(truncated) - half + 1, Len(truncated))
                         = SubSeq(observation, Len(observation) - half + 1,
                                  Len(observation))

-----------------------------------------------------------------------------
(* C7 *)

\* C7, as claimed: a step that calls the model adds to num_of_chars the lengths
\* of the messages sent and the length of the reply as the model returned it.
C7_RawReplyCounted ==
    [][llm_calls' # llm_calls
        => num_of_chars' = num_of_chars + ContentChars(messages') + StrLen(response')]_vars

\* C7, amended: a step that calls the model adds to num_of_chars the lengths of
\* the messages sent and the length of the reply after the tag repair: the
\* reply as returned and every closing tag the repair appended to it.
C7_RepairedReplyCounted ==
    [][llm_calls' # llm_calls
        => num_of_chars' = num_of_chars + ContentChars(messages') + StrLen(response')
                            + AppendedChars(response')]_vars

C7_Witness ==
    /\ step_calls = 1
    /\ llm_calls = 1
    /\ Unterminated(response, "ipython")
    /\ Unterminated(response, "browse")
    /\ Len(messages) = 2 + MaxHistory
    /\ num_of_chars = ContentChars(messages) + StrLen(response) + AppendedChars(response)

-----------------------------------------------------------------------------
(* C8 *)

\* C8: a step leaves the event history, the iteration count, the maximum
\* iteration count and the agent's fixed texts as they were.
C8_StepFrame ==
    [][step_calls' # step_calls
        => /\ history' = history
           /\ iteration' = iteration
           /\ max_iterations' = max_iterations
           /\ in_context_example' = in_context_example
           /\ system_message' = system_message]_vars

C8_Witness ==
    /\ step_calls = 2
    /\ llm_calls = 2
    /\ Len(history) = MaxHistory
    /\ history[Len(history)].kind = "MessageAction"
    /\ history[Len(history)].source = "user"
    /\ messages[Len(messages)].content # history[Len(history)].content
    /\ in_context_example = InContextExampleText

-----------------------------------------------------------------------------
(* C9 *)

C9_Base(h) ==
    <<[role |-> "system", content |-> get_system_message],
      [role |-> "user", content |-> InContextExampleText]>> \o HistoryMessages(h)

\* C9: when the last user message does not trim to /exit, the assembled list is
\* the system message, the example message and the events' messages in order,
\* but for the reminder of max_iterations - iteration turns that ends the last
\* user message; so it is for every step on the state.
C9_ReminderOnce ==
    [][step_calls' # step_calls
        => LET base == C9_Base(history)
           IN  \A k \in 1..Len(base) :
                 (IsLastUser(base, k) /\ strip(base[k].content) # ExitText)
                 => messages' =
                      [i \in 1..Len(base) |->
                         IF i = k
                         THEN [role |-> "user",
                               content |-> base[k].content
                                           \o Reminder(max_iterations - iteration)]
                         ELSE base[i]]]_vars

C9_Witness ==
    /\ step_calls = 2
    /\ iteration = 1
    /\ Len(messages) = 2 + MaxHistory
    /\ messages[Len(messages)].role = "assistant"
    /\ \E k \in 3..Len(messages) :
         /\ IsLastUser(messages, k)
         /\ messages[k].content = <<"x", " ", "x">> \o Reminder(9)

-----------------------------------------------------------------------------
(* C10 *)

C10_Text == parse_response(response)

C10_Lazy(open, close) ==
    /\ action.payload = strip(SpanInner(C10_Text, ShortestSpan(C10_Text, open, close)))
    /\ action.thought =
         strip(replace(C10_Text, SpanText(C10_Text, ShortestSpan(C10_Text, open, close))))

C10_Greedy(open, close) ==
    /\ action.payload = strip(SpanInner(C10_Text, LongestSpan(C10_Text, open, close)))
    /\ action.thought =
         strip(replace(C10_Text, SpanText(C10_Text, LongestSpan(C10_Text, open, close))))

C10_FinishByTag == HasPair(C10_Text, "<finish>", "</finish>")

\* C10, as claimed: the span of the finish, command and code kinds ends at the
\* first closing tag after the first opening tag, and what follows it stays in
\* the thought; the span of the browse kind ends at the last closing tag.
C10_FinishShortest ==
    /\ (action # NoAction /\ C10_FinishByTag)
         => action.thought =
              strip(replace(C10_Text,
                            SpanText(C10_Text, ShortestSpan(C10_Text, "<finish>", "</finish>"))))
    /\ action.type = "CmdRunAction" => C10_Lazy("<execute_bash>", "</execute_bash>")
    /\ action.type = "IPythonRunCellAction"
         => C10_Lazy("<execute_ipython>", "</execute_ipython>")
    /\ action.type = "BrowseInteractiveAction"
         => C10_Greedy("<execute_browse>", "</execute_browse>")

\* C10, amended: the span of the command and code kinds ends at the first
\* closing tag after the first opening tag; the span of the finish and browse
\* kinds ends at the last closing tag; the thought is the repaired reply with
\* every occurrence of the span removed, trimmed.
C10_SpanEnds ==
    /\ (action # NoAction /\ C10_FinishByTag)
         => action.thought =
              strip(replace(C10_Text,
                            SpanText(C10_Text, LongestSpan(C10_Text, "<finish>", "</finish>"))))
    /\ action.type = "CmdRunAction" => C10_Lazy("<execute_bash>", "</execute_bash>")
    /\ action.type = "IPythonRunCellAction"
         => C10_Lazy("<execute_ipython>", "</execute_ipython>")
    /\ action.type = "BrowseInteractiveAction"
         => C10_Greedy("<execute_browse>", "</execute_browse>")

C10_Witness ==
    /\ action.type = "AgentFinishAction"
    /\ response = <<"<finish>", "</finish>", "x", "</finish>">>
    /\ action.thought = <<>>

====
